---- MODULE Spec2Model ----
(***************************************************************************)
(* A model of updates.js: the version resolution engine (findVersion,      *)
(* findNewVersion, updateRange), the registry fetch protocol (get, main),  *)
(* the manifest patcher (updatePackageJson), the checks of URL             *)
(* dependencies (checkUrlDep), the include/exclude scan, the mixed option  *)
(* values (parseMixedArg) and the manifest lookup (findSync).              *)
(*                                                                         *)
(* A semver version "M.m.p" or "M.m.p-k" is the tuple <<M, m, p, k>>; k = 0 *)
(* is a release, k > 0 the prerelease with the single numeric identifier k. *)
(***************************************************************************)
EXTENDS Integers, Sequences, FiniteSets, TLC

\* Version components range over 0..MaxNum, prerelease identifiers over 1..MaxPre.
MaxNum == 1
MaxPre == 1
\* A registry document lists at most MaxCatalog versions.
MaxCatalog == 2
\* The manifest of a run declares at most MaxDeps dependencies.
MaxDeps == 2
\* A manifest has at most MaxFields "name": "value" fields.
MaxFields == 2
\* A range string has at most MaxComparators comparators.
MaxComparators == 2
\* User and repository names have at most MaxName characters.
MaxName == 2
\* An abbreviated commit hash has at most MaxRef characters.
MaxRef == 2
\* A full commit hash has ShaLen characters.
ShaLen == 3
\* A comma-separated option value lists at most MaxList names.
MaxList == 2
\* The tags fetch answers with at most MaxTags tags.
MaxTags == 2
\* Where the option value or the text of the range is the subject, a
\* registry document lists at most MaxSmallCatalog versions.
MaxSmallCatalog == 1
\* The current directory lies at most MaxDepth levels below the root.
MaxDepth == 4

VARIABLES
  pc,              \* position of the run of main()
  oldRange,        \* deps[key].old
  data,            \* the registry document of the package
  opts,            \* usePre, useRel, useGreatest, semvers of the package
  allowDowngrade,  \* the condition of line 575 for this package
  newVersion,      \* result of findNewVersion
  newRange,        \* result of updateRange
  reported,        \* whether deps[key] is kept (lines 692-698)
  mainPc,          \* position of main(): "start", "awaiting", "finished"
  regOf,           \* per dependency: the registry getAuthAndRegistry gives
  hasUpdate,       \* per dependency: whether resolution yields a new range
  getPc,           \* per dependency: position of its get() call
  fetched,         \* per dependency: the registries fetched from, in order
  answers,         \* per dependency: the answers its fetches got, in order
  outcome,         \* what finish() was called with
  printed,         \* the dependencies finish() prints as results
  args,            \* the command-line flags of the run
  urlPc,           \* per entry of maybeUrlDeps: position of its checkUrlDep call
  depsKeys,        \* Object.keys(deps), in order
  completed,       \* the entries whose fetches have settled, in that order
  exitCode,        \* the code given to process.exit, -1 while running
  reads,           \* how often the manifest file has been read
  writes,          \* how often the manifest file has been written
  loaded,          \* how finding, reading and parsing the manifest ended
  patchPc,         \* position of updatePackageJson: "start", "patched"
  pkgStr,          \* the manifest text as read, a sequence of fields
  deps,            \* the reported dependencies, in the order of Object.keys
  newPkgStr,       \* the text updatePackageJson returns
  rangePc,         \* position of a call of updateRange: "start", "done"
  comparators,     \* the old range of that call, comparator by comparator
  versionStr,      \* the version argument of that call, as characters
  newRangeStr,     \* the string that call returns, as characters
  checkPc,         \* position of a call of checkUrlDep: "start", "done"
  urlDep,          \* the old specifier of that call: user, repo and ref
  commits,         \* the answer of the commits fetch of that call
  checkResult,     \* the newRange that call returns, <<>> for undefined
  scanPc,          \* position of the dependency scan: "start", "done", "crashed"
  pkg,             \* the names of one section of the manifest and their kinds
  filters,         \* args.include and args.exclude as minimist gives them
  scanned,         \* the names put into deps or maybeUrlDeps
  downgradeArg,    \* args["allow-downgrade"] as minimist gives it
  pkgName,         \* data.name of the package being resolved
  tagPc,           \* position of a tag check: "start", "done", "rejected"
  oldTag,          \* oldRef of that call: the tag the old specifier ends in
  tagsAnswer,      \* the answer of the tags fetch of that call
  tagGreatest,     \* useGreatest of that call
  tagResult,       \* the newRef that call returns, if any
  partPc,          \* position of main on a partial range: "start", "resolved", "failed"
  partRange,       \* deps[key].old, a range without x.y.z, as characters
  partData,        \* the registry document of that package
  partPolicy,      \* usePre, useRel, useGreatest, ceiling, allowDowngrade
  partVersion,     \* what findNewVersion returns for it
  partNewRange,    \* what updateRange returns for it, as characters
  partKept,        \* whether deps[key] is kept (lines 692-698)
  findPc,          \* position of the manifest lookup: "start", "found",
                   \* "notfound", "crashed"
  cwdDepth,        \* the depth of the current directory below the root
  holders,         \* the depths of its ancestors-or-self that hold package.json
  packageFile      \* the depth of the directory whose package.json is used

engineVars ==
  <<pc, oldRange, data, opts, allowDowngrade, newVersion, newRange, reported>>

runVars ==
  <<mainPc, regOf, hasUpdate, getPc, fetched, answers, outcome, printed,
    args, urlPc, depsKeys, completed, exitCode, reads, writes, loaded>>

patchVars == <<patchPc, pkgStr, deps, newPkgStr>>

rangeVars == <<rangePc, comparators, versionStr, newRangeStr>>

checkVars == <<checkPc, urlDep, commits, checkResult>>

scanVars == <<scanPc, pkg, filters, scanned>>

gateVars == <<downgradeArg, pkgName>>

tagVars == <<tagPc, oldTag, tagsAnswer, tagGreatest, tagResult>>

partVars ==
  <<partPc, partRange, partData, partPolicy, partVersion, partNewRange, partKept>>

findVars == <<findPc, cwdDepth, holders, packageFile>>

vars ==
  <<engineVars, runVars, patchVars, rangeVars, checkVars, scanVars, gateVars,
    tagVars, partVars, findVars>>

---------------------------------------------------------------------------
\* Values.

Nums == 0..MaxNum
Versions == Nums \X Nums \X Nums \X (0..MaxPre)

\* null (findNewVersion's "no change") and an exception thrown by a semver call
Null == <<>>
Throw == <<-1>>
\* data["dist-tags"].latest is undefined
NoTag == <<-2>>

IsVersion(v) == Len(v) = 4

---------------------------------------------------------------------------
\* The semver package, as used by updates.js (semver 7 before 7.5).

\* parsed.prerelease.length
HasPre(v) == v[4] # 0

\* -1, 0, 1: main version first; a release is greater than its prereleases
Compare(a, b) ==
  IF a[1] # b[1] THEN (IF a[1] < b[1] THEN -1 ELSE 1)
  ELSE IF a[2] # b[2] THEN (IF a[2] < b[2] THEN -1 ELSE 1)
  ELSE IF a[3] # b[3] THEN (IF a[3] < b[3] THEN -1 ELSE 1)
  ELSE IF a[4] = b[4] THEN 0
  ELSE IF a[4] = 0 THEN 1
  ELSE IF b[4] = 0 THEN -1
  ELSE IF a[4] < b[4] THEN -1 ELSE 1

Gt(a, b) == Compare(a, b) = 1
Gte(a, b) == Compare(a, b) >= 0
Lt(a, b) == Compare(a, b) = -1
Neq(a, b) == Compare(a, b) # 0

\* semver.coerce(x).version: the first M.m.p of the text, prerelease dropped
Coerce(v) == <<v[1], v[2], v[3], 0>>

\* semver.diff: "none" stands for null
Diff(a, b) ==
  IF Compare(a, b) = 0 THEN "none"
  ELSE LET hasPre == HasPre(a) \/ HasPre(b)
           prefix(k) == IF hasPre THEN "pre" \o k ELSE k
       IN IF a[1] # b[1] THEN prefix("major")
          ELSE IF a[2] # b[2] THEN prefix("minor")
          ELSE IF a[3] # b[3] THEN prefix("patch")
          ELSE "prerelease"

\* diff.replace(/^pre/, "")
StripPre(d) ==
  CASE d = "premajor" -> "major"
    [] d = "preminor" -> "minor"
    [] d = "prepatch" -> "patch"
    [] d = "prerelease" -> "release"
    [] OTHER -> d

---------------------------------------------------------------------------
\* The resolution engine.

\* A range is an operator prefix and the x.y.z[-k] it embeds.
RangeOps == {"^"}
Ranges == [op : RangeOps, v : Versions]

isVersionPrerelease(version) == IsVersion(version) /\ HasPre(version)

isRangePrerelease(range) == HasPre(range.v)

rangeToVersion(range) == Coerce(range.v)

updateRange(range, version) == [op |-> range.op, v |-> version]

SemversOf(ceiling) ==
  CASE ceiling = "patch" -> {"patch"}
    [] ceiling = "minor" -> {"patch", "minor"}
    [] OTHER -> {"patch", "minor", "major"}

\* lines 493-501: the accepted diff classes
AcceptedClasses(o) ==
  o.semvers \cup
    (IF isRangePrerelease(o.range) \/ o.usePre
       THEN {"prerelease"} \cup {"pre" \o c : c \in o.semvers}
       ELSE {})

\* line 494
UsePre(o) == isRangePrerelease(o.range) \/ o.usePre

\* line 505 without "|| opts.useRel"
SkipPrereleaseUnlessPre(o, parsed) == HasPre(parsed) /\ ~UsePre(o)

\* line 505: a prerelease is not considered
SkipPrerelease(o, parsed) == HasPre(parsed) /\ (~UsePre(o) \/ o.useRel)

\* line 508: the diff class is not accepted
SkipClass(o, diff) == diff = "none" \/ diff \notin AcceptedClasses(o)

\* line 512: greatest mode keeps the version
KeepGreatest(parsed, tempVersion) == Gte(Coerce(parsed), tempVersion)

\* line 517: latest mode keeps the version
KeepLatest(date, tempDate) == date >= 0 /\ date > tempDate

\* lines 503-522: one iteration of the loop; temp is <<tempVersion, tempDate>>
ScanStep(d, o, temp, entry) ==
  LET parsed == entry.v
      diff == Diff(temp[1], parsed)
  IN IF SkipPrerelease(o, parsed) THEN temp
     ELSE IF SkipClass(o, diff) THEN temp
     ELSE IF o.useGreatest \/ ~d.hasTime
       THEN (IF KeepGreatest(parsed, temp[1]) THEN <<parsed, temp[2]>> ELSE temp)
       ELSE (IF KeepLatest(entry.t, temp[2]) THEN <<parsed, entry.t>> ELSE temp)

RECURSIVE Scan(_, _, _, _)
Scan(d, o, temp, i) ==
  IF i > Len(d.versions) THEN temp
  ELSE Scan(d, o, ScanStep(d, o, temp, d.versions[i]), i + 1)

\* lines 489-525
findVersion(d, o) == Scan(d, o, <<rangeToVersion(o.range), 0>>, 1)[1]

\* line 543: update to new prerelease
ToNewPrerelease(o, oldIsPre, newIsPre) ==
  (~o.useRel /\ o.usePre) \/ (oldIsPre /\ newIsPre)

\* line 564 with the check of the dist-tag against semvers left out
TagOutsideCeilingIgnored(o, diff) == FALSE

\* line 564: latestTag is not allowed by semvers
TagOutsideCeiling(o, diff) ==
  diff # "none" /\ diff # "prerelease" /\ StripPre(diff) \notin o.semvers

\* line 569: no upgrade to a prerelease with --release
TagIsPrereleaseOnRelease(o, latestTag) ==
  o.useRel /\ isVersionPrerelease(latestTag)

\* line 574 without "&& !latestIsPre"
TagIsDowngradeAnyTag(latestTag, oldVersion) == Lt(latestTag, oldVersion)

\* line 574: the dist-tag is a downgrade
TagIsDowngrade(latestTag, oldVersion) ==
  Lt(latestTag, oldVersion) /\ ~isVersionPrerelease(latestTag)

\* lines 535-584; semver.diff(oldVersion, undefined) throws a TypeError
LatestBranch(d, o, allowDown, version) ==
  LET latestTag == d.latest
      oldVersion == Coerce(o.range.v)
      oldIsPre == isRangePrerelease(o.range)
      newIsPre == isVersionPrerelease(version)
      isGreater == Gt(version, oldVersion)
  IN IF ToNewPrerelease(o, oldIsPre, newIsPre) THEN version
     ELSE IF o.useRel /\ ~isGreater /\ oldIsPre /\ ~newIsPre THEN version
     ELSE IF oldIsPre /\ ~newIsPre /\ isGreater THEN version
     ELSE IF oldIsPre /\ ~newIsPre /\ ~isGreater THEN Null
     ELSE IF latestTag = NoTag THEN Throw
     ELSE IF TagOutsideCeiling(o, Diff(oldVersion, latestTag)) THEN version
     ELSE IF TagIsPrereleaseOnRelease(o, latestTag) THEN version
     ELSE IF TagIsDowngrade(latestTag, oldVersion)
       THEN (IF allowDown THEN latestTag ELSE Null)
     ELSE latestTag

\* lines 527-585 with the reconciliation against the dist-tag left out
findNewVersionScanOnly(d, o, allowDown) == findVersion(d, o)

\* lines 527-585
findNewVersion(d, o, allowDown) ==
  LET version == findVersion(d, o)
  IN IF o.useGreatest THEN version
     ELSE LatestBranch(d, o, allowDown, version)

---------------------------------------------------------------------------
\* Inputs of the resolution engine.

\* A publish time is a rank 1, 2, ...; 0 stands for a missing or invalid time
\* (new Date(undefined).getTime() is NaN) and for the epoch itself.  Only the
\* order of the times is read, so the ranks in use are 1..k.
Entries == [v : Versions, t : 0..MaxCatalog]

Distinct(s) == \A i, j \in 1..Len(s) : i # j => s[i].v # s[j].v

RanksUsed(s) == {s[i].t : i \in 1..Len(s)} \ {0}

Catalogs(max) ==
  UNION {{s \in [1..n -> Entries] :
            Distinct(s) /\ RanksUsed(s) = 1..Cardinality(RanksUsed(s))} :
         n \in 0..max}

\* The latest dist-tag of a document is one of its versions; a document
\* without "time" carries no times.
TagsOf(s) == IF s = <<>> THEN {NoTag} ELSE {s[i].v : i \in 1..Len(s)}

NoTimes(s) == \A i \in 1..Len(s) : s[i].t = 0

DocumentsOf(s) ==
  {[versions |-> s, hasTime |-> h, latest |-> l] :
     h \in {b \in BOOLEAN : b \/ NoTimes(s)}, l \in TagsOf(s)}

Documents(max) == UNION {DocumentsOf(s) : s \in Catalogs(max)}

Ceilings == {"patch", "minor", "major"}

OptsOf(range, usePre, useRel, useGreatest, ceiling) ==
  [usePre |-> usePre, useRel |-> useRel, useGreatest |-> useGreatest,
   semvers |-> SemversOf(ceiling), range |-> range]

---------------------------------------------------------------------------
\* main, lines 687-698, for one dependency.

\* no run of the fetch protocol
RunIdle ==
  /\ mainPc = "idle"
  /\ regOf = <<>>
  /\ hasUpdate = <<>>
  /\ getPc = <<>>
  /\ fetched = <<>>
  /\ answers = <<>>
  /\ outcome = "none"
  /\ printed = {}
  /\ args = <<>>
  /\ urlPc = <<>>
  /\ depsKeys = <<>>
  /\ completed = <<>>
  /\ exitCode = -1
  /\ reads = 0
  /\ writes = 0
  /\ loaded = "none"

\* no run of updatePackageJson
PatchIdle ==
  /\ patchPc = "idle"
  /\ pkgStr = <<>>
  /\ deps = <<>>
  /\ newPkgStr = <<>>

\* no call of updateRange on a range string
RangeIdle ==
  /\ rangePc = "idle"
  /\ comparators = <<>>
  /\ versionStr = <<>>
  /\ newRangeStr = <<>>

\* no call of checkUrlDep on a specifier
CheckIdle ==
  /\ checkPc = "idle"
  /\ urlDep = <<>>
  /\ commits = <<>>
  /\ checkResult = <<>>

\* no dependency scan
ScanIdle ==
  /\ scanPc = "idle"
  /\ pkg = <<>>
  /\ filters = <<>>
  /\ scanned = {}

\* no option value under consideration
GateIdle ==
  /\ downgradeArg = <<>>
  /\ pkgName = ""

\* no call of checkUrlDep on a tag
TagIdle ==
  /\ tagPc = "idle"
  /\ oldTag = <<>>
  /\ tagsAnswer = <<>>
  /\ tagGreatest = FALSE
  /\ tagResult = <<>>

\* no partial range under resolution
PartIdle ==
  /\ partPc = "idle"
  /\ partRange = <<"*">>
  /\ partData = <<>>
  /\ partPolicy = <<>>
  /\ partVersion = <<>>
  /\ partNewRange = <<"*">>
  /\ partKept = FALSE

\* no manifest lookup
FindIdle ==
  /\ findPc = "idle"
  /\ cwdDepth = 0
  /\ holders = {}
  /\ packageFile = -1

Init ==
  /\ pc = "start"
  /\ oldRange \in Ranges
  /\ data \in Documents(MaxCatalog)
  /\ \E p \in BOOLEAN, r \in BOOLEAN, g \in BOOLEAN, c \in Ceilings :
       opts = OptsOf(oldRange, p, r, g, c)
  /\ allowDowngrade \in BOOLEAN
  \* greatest mode reads neither the times nor allowDowngrade
  /\ opts.useGreatest => NoTimes(data.versions) /\ ~allowDowngrade
  /\ newVersion = Null
  /\ newRange = oldRange
  /\ reported = FALSE
  /\ RunIdle
  /\ PatchIdle
  /\ RangeIdle
  /\ CheckIdle
  /\ ScanIdle
  /\ GateIdle
  /\ TagIdle
  /\ PartIdle
  /\ FindIdle

ResolveFrom(range) ==
  /\ oldRange' = range
  /\ opts' = [opts EXCEPT !.range = range]
  /\ newVersion' = findNewVersion(data, opts', allowDowngrade)
  /\ IF newVersion' = Throw
       THEN /\ pc' = "failed"
            /\ newRange' = range
            /\ reported' = FALSE
       ELSE /\ pc' = "resolved"
            /\ newRange' = updateRange(range, newVersion')
            /\ reported' = ~(newVersion' = Null \/ range = newRange')
  /\ UNCHANGED <<data, allowDowngrade>>
  /\ UNCHANGED <<runVars, patchVars, rangeVars, checkVars, scanVars,
                 gateVars, tagVars, partVars,
                 findVars>>

Resolve ==
  /\ pc = "start"
  /\ ResolveFrom(oldRange)

\* the manifest was rewritten (--update) and the tool runs again
Rerun ==
  /\ pc = "resolved"
  /\ reported
  /\ ResolveFrom(newRange)

Next == Resolve \/ Rerun

Spec == Init /\ [][Next]_vars

---------------------------------------------------------------------------
\* A whole run: the top-level code (lines 148-227), get (lines 314-339),
\* main (lines 663-742) and finish (lines 354-397).
\* The manifest entries are numbered 1..n in the order the manifest declares
\* them; Deps are the semver-range ones, UrlDeps the others.

\* what getAuthAndRegistry returns: the default registry, another registry,
\* or undefined (a scoped package whose registry has no token, lines 285-290)
Registries == {"default", "custom"}
AuthResults == Registries \cup {"none"}

\* a fetch answers ok, ok with an "error" field in the JSON, with a status
\* and status text, with an empty status text, or it throws
Responses == {"ok", "okerror", "status", "nostatus", "throw"}

\* checkUrlDep (lines 588-649) ends with an update, with the same reference,
\* with an answer that is not ok, or its fetch throws
UrlResponses == {"update", "same", "notok", "throw"}

\* lines 152-198: no manifest found, read fails, JSON.parse fails, or all fine
LoadResults == {"notfound", "unreadable", "unparseable", "ok"}

\* the flags main and the exit of finish read
Args == [update : BOOLEAN, errorOnOutdated : BOOLEAN, errorOnUnchanged : BOOLEAN]

\* an entry of maybeUrlDeps is a GitHub specifier that partsRe (line 29)
\* takes apart, or another text, on which checkUrlDep returns at line 591
UrlKinds == {"idle", "unrecognised"}

\* no engine run
EngineIdle ==
  /\ pc = "idle"
  /\ oldRange = [op |-> "^", v |-> <<0, 0, 0, 0>>]
  /\ data = [versions |-> <<>>, hasTime |-> FALSE, latest |-> NoTag]
  /\ opts = OptsOf(oldRange, FALSE, FALSE, FALSE, "major")
  /\ allowDowngrade = FALSE
  /\ newVersion = Null
  /\ newRange = oldRange
  /\ reported = FALSE

InitRun ==
  /\ EngineIdle
  /\ PatchIdle
  /\ RangeIdle
  /\ CheckIdle
  /\ ScanIdle
  /\ GateIdle
  /\ TagIdle
  /\ PartIdle
  /\ FindIdle
  /\ mainPc = "start"
  /\ args \in Args
  /\ \E n \in 0..MaxDeps : \E ranges \in SUBSET (1..n) :
       /\ regOf \in [ranges -> AuthResults]
       /\ hasUpdate \in [ranges -> BOOLEAN]
       /\ getPc = [d \in ranges |-> "idle"]
       /\ fetched = [d \in ranges |-> <<>>]
       /\ answers = [d \in ranges |-> <<>>]
       /\ urlPc \in [(1..n) \ ranges -> UrlKinds]
  /\ depsKeys = <<>>
  /\ completed = <<>>
  /\ outcome = "none"
  /\ printed = {}
  /\ exitCode = -1
  /\ reads = 0
  /\ writes = 0
  /\ loaded = "none"

Deps == DOMAIN getPc
UrlDeps == DOMAIN urlPc

\* the entries of a set in the order of the manifest
Ids == [i \in 1..MaxDeps |-> i]
InOrder(S) == SelectSeq(Ids, LAMBDA d : d \in S)
Elements(keys) == {keys[i] : i \in DOMAIN keys}

\* finish testing --error-on-unchanged before --error-on-outdated
ExitCodeUnchangedFirst(hadError, keys) ==
  IF args.errorOnUnchanged THEN (IF keys # <<>> THEN 0 ELSE 2)
  ELSE IF args.errorOnOutdated THEN (IF keys # <<>> THEN 2 ELSE 0)
  ELSE IF hadError THEN 1 ELSE 0

\* lines 390-396: the exit code finish ends the process with
ExitCode(hadError, keys) ==
  IF args.errorOnOutdated THEN (IF keys # <<>> THEN 2 ELSE 0)
  ELSE IF args.errorOnUnchanged THEN (IF keys # <<>> THEN 0 ELSE 2)
  ELSE IF hadError THEN 1 ELSE 0

\* finish printing the results whether or not it got an error
PrintedAlways(hadError, keys) == Elements(keys)

\* lines 364-377: the dependencies finish prints; the results object of
\* JSON mode is filled under !hadError (line 365), the table of the other
\* mode is printed under a non-empty deps and !hadError (line 375)
Printed(hadError, keys) == IF hadError THEN {} ELSE Elements(keys)

\* finish, called while Object.keys(deps) is keys
Finish(kind, keys) ==
  /\ mainPc' = "finished"
  /\ outcome' = kind
  /\ depsKeys' = keys
  /\ printed' = Printed(kind = "error", keys)
  /\ exitCode' = ExitCode(kind = "error", keys)

\* main writing the manifest whether or not --update is given
EndOfMainAlwaysWrites(keys) ==
  IF keys = <<>> THEN Finish("uptodate", keys) /\ UNCHANGED writes
  ELSE /\ writes' = writes + 1
       /\ \E written \in BOOLEAN :
            Finish(IF written THEN "results" ELSE "error", keys)

\* lines 722-739: the end of main
EndOfMain(keys) ==
  IF keys = <<>> THEN Finish("uptodate", keys) /\ UNCHANGED writes
  ELSE IF ~args.update THEN Finish("results", keys) /\ UNCHANGED writes
  ELSE /\ writes' = writes + 1
       /\ \E written \in BOOLEAN :
            Finish(IF written THEN "results" ELSE "error", keys)

\* the URL checks that main starts, lines 701-706
UrlChecksSkipped == {}
UrlChecks == UrlDeps

\* lines 701-720: main awaits the checks of maybeUrlDeps; a check of an
\* unrecognised specifier fetches nothing and gives undefined
AfterLoop(keys) ==
  IF \E d \in UrlChecks : urlPc[d] = "idle"
    THEN /\ mainPc' = "urlawait"
         /\ urlPc' = [d \in UrlDeps |->
                       IF urlPc[d] = "idle" THEN "fetching" ELSE urlPc[d]]
         /\ depsKeys' = keys
         /\ UNCHANGED <<outcome, printed, exitCode, writes>>
    ELSE EndOfMain(keys) /\ UNCHANGED urlPc

\* get has settled: fulfilled with a document, fulfilled with undefined, rejected
Rejected(g) == \E d \in DOMAIN g : g[d] = "rejected"
Settled(g) == \A d \in DOMAIN g : g[d] \in {"fulfilled", "fulfillederror", "undefined"}

\* lines 669-672: the loop over dati destructures each entry and throws on
\* undefined or on data.error
LoopThrows(g) == \E d \in DOMAIN g : g[d] \in {"undefined", "fulfillederror"}

\* Object.keys(deps) when the loop throws: the entries before the throwing
\* one have been deleted unless they have an update (lines 692-698)
KeysAtThrow(g) ==
  LET f == CHOOSE d \in DOMAIN g :
             /\ g[d] \in {"undefined", "fulfillederror"}
             /\ \A e \in DOMAIN g :
                  g[e] \in {"undefined", "fulfillederror"} => d <= e
  IN SelectSeq(depsKeys, LAMBDA d : d >= f \/ hasUpdate[d])

\* a loop that would keep the updated entries in the order of completion
LoopKeysByCompletion(g) == SelectSeq(completed', LAMBDA d : hasUpdate[d])

\* Object.keys(deps) after the loop of lines 669-699
LoopKeys(g) == SelectSeq(depsKeys, LAMBDA d : hasUpdate[d])

\* main with Promise.allSettled in place of Promise.all: failed entries skipped
ContinueSkipFailed(g) ==
  IF \A d \in DOMAIN g : g[d] \notin {"idle", "fetch1", "fetch2"}
    THEN AfterLoop(SelectSeq(depsKeys,
                     LAMBDA d : g[d] = "fulfilled" /\ hasUpdate[d]))
    ELSE UNCHANGED <<mainPc, outcome, printed, depsKeys, exitCode, writes, urlPc>>

\* the continuation of main once a get() has settled with g the new getPc:
\* Promise.all rejects on the first rejection, main().catch(finish) exits
Continue(g) ==
  IF Rejected(g)
    THEN Finish("error", depsKeys) /\ UNCHANGED <<writes, urlPc>>
  ELSE IF ~Settled(g)
    THEN UNCHANGED <<mainPc, outcome, printed, depsKeys, exitCode, writes, urlPc>>
  ELSE IF LoopThrows(g)
    THEN Finish("error", KeysAtThrow(g)) /\ UNCHANGED <<writes, urlPc>>
  ELSE AfterLoop(LoopKeys(g))

\* the synchronous start of the run: lines 152-198 find, read and parse the
\* manifest, lines 204-227 fill deps, lines 664-667 and 315-319 run every
\* get() up to its first await
StartMain ==
  /\ mainPc = "start"
  /\ \E res \in LoadResults :
       /\ loaded' = res
       /\ reads' = IF res = "notfound" THEN 0 ELSE 1
       /\ IF res # "ok" \/ Deps = {}
            THEN /\ Finish("error", <<>>)
                 /\ UNCHANGED <<getPc, fetched>>
            ELSE /\ getPc' = [d \in Deps |->
                               IF regOf[d] = "none" THEN "rejected" ELSE "fetch1"]
                 /\ fetched' = [d \in Deps |->
                                 IF regOf[d] = "none" THEN <<>> ELSE <<regOf[d]>>]
                 /\ IF Rejected(getPc')
                      THEN Finish("error", InOrder(Deps))
                      ELSE /\ mainPc' = "awaiting"
                           /\ depsKeys' = InOrder(Deps)
                           /\ UNCHANGED <<outcome, printed, exitCode>>
  /\ UNCHANGED <<regOf, hasUpdate, answers, args, urlPc, completed, writes>>
  /\ UNCHANGED <<engineVars, patchVars, rangeVars, checkVars, scanVars,
                 gateVars, tagVars, partVars,
                 findVars>>

\* get without the retry of lines 329-338
AfterFirstNoRetry(registry, res) ==
  CASE res = "ok" -> "fulfilled"
    [] res = "okerror" -> "fulfillederror"
    [] res = "nostatus" -> "undefined"
    [] OTHER -> "rejected"

\* lines 318-338: what get does with the answer of its first fetch
AfterFirst(registry, res) ==
  CASE res = "ok" -> "fulfilled"
    [] res = "okerror" -> "fulfillederror"
    [] res = "throw" -> IF registry = "default" THEN "rejected" ELSE "fetch2"
    [] res = "status" -> IF registry = "default" THEN "rejected" ELSE "fetch2"
    [] OTHER -> IF registry = "default" THEN "undefined" ELSE "fetch2"

\* lines 332-337: what get does with the answer of the retry
AfterRetry(res) ==
  CASE res = "ok" -> "fulfilled"
    [] res = "okerror" -> "fulfillederror"
    [] res = "throw" -> "rejected"
    [] res = "status" -> "rejected"
    [] OTHER -> "undefined"

Respond1(d, res) ==
  /\ mainPc = "awaiting"
  /\ getPc[d] = "fetch1"
  /\ answers' = [answers EXCEPT ![d] = Append(@, res)]
  /\ getPc' = [getPc EXCEPT ![d] = AfterFirst(regOf[d], res)]
  /\ fetched' = IF getPc'[d] = "fetch2"
                  THEN [fetched EXCEPT ![d] = Append(@, "default")]
                  ELSE fetched
  /\ completed' = IF getPc'[d] = "fetch2" THEN completed
                                           ELSE Append(completed, d)
  /\ Continue(getPc')
  /\ UNCHANGED <<regOf, hasUpdate, args, reads, loaded>>
  /\ UNCHANGED <<engineVars, patchVars, rangeVars, checkVars, scanVars,
                 gateVars, tagVars, partVars,
                 findVars>>

Respond2(d, res) ==
  /\ mainPc = "awaiting"
  /\ getPc[d] = "fetch2"
  /\ answers' = [answers EXCEPT ![d] = Append(@, res)]
  /\ getPc' = [getPc EXCEPT ![d] = AfterRetry(res)]
  /\ completed' = Append(completed, d)
  /\ Continue(getPc')
  /\ UNCHANGED <<regOf, hasUpdate, fetched, args, reads, loaded>>
  /\ UNCHANGED <<engineVars, patchVars, rangeVars, checkVars, scanVars,
                 gateVars, tagVars, partVars,
                 findVars>>

\* lines 702-720: a checkUrlDep settles; the new keys are added to deps
\* once all have settled, in the order of maybeUrlDeps
UrlRespond(d, res) ==
  /\ mainPc = "urlawait"
  /\ urlPc[d] = "fetching"
  /\ completed' = Append(completed, d)
  /\ LET u == [urlPc EXCEPT ![d] = CASE res = "update" -> "updated"
                                     [] res = "throw" -> "rejected"
                                     [] res = "notok" -> "notok"
                                     [] OTHER -> "none"]
     IN /\ urlPc' = u
        /\ IF u[d] = "rejected"
             THEN Finish("error", depsKeys) /\ UNCHANGED writes
           ELSE IF \E e \in UrlDeps : u[e] = "fetching"
             THEN UNCHANGED <<mainPc, outcome, printed, depsKeys, exitCode, writes>>
           ELSE EndOfMain(depsKeys \o InOrder({e \in UrlDeps : u[e] = "updated"}))
  /\ UNCHANGED <<regOf, hasUpdate, getPc, fetched, answers, args, reads, loaded>>
  /\ UNCHANGED <<engineVars, patchVars, rangeVars, checkVars, scanVars,
                 gateVars, tagVars, partVars,
                 findVars>>

NextRun ==
  \/ StartMain
  \/ \E d \in Deps, res \in Responses : Respond1(d, res)
  \/ \E d \in Deps, res \in Responses : Respond2(d, res)
  \/ \E d \in UrlDeps, res \in UrlResponses : UrlRespond(d, res)

SpecRun == InitRun /\ [][NextRun]_vars

---------------------------------------------------------------------------
\* The manifest patch: updatePackageJson (lines 454-464) on the text read at
\* line 189, with deps filled at lines 204-219 and 692-698.

\* The manifest text is a sequence of fields  "name":<gap>"value", each in a
\* section; gap is the run of whitespace characters after the colon.
dependencyTypes == <<"dependencies", "devDependencies">>
Sections == {"dependencies", "devDependencies", "resolutions"}
Names == {"a", "b"}
Specifiers == {"1.0.0", "1.0.1", "1.0.2"}
Gaps == {<<>>, <<" ">>, <<" ", " ">>, <<"\t">>}
Fields == [section : Sections, name : Names, gap : Gaps, value : Specifiers]

\* a JSON object holds a name once
DistinctKeys(text) ==
  \A i, j \in DOMAIN text :
    (text[i].section = text[j].section /\ text[i].name = text[j].name) => i = j
Texts ==
  {text \in UNION {[1..n -> Fields] : n \in 0..MaxFields} : DistinctKeys(text)}

\* JSON.parse(text)[section][name]
ValueAt(text, section, name) ==
  LET i == CHOOSE i \in DOMAIN text :
             text[i].section = section /\ text[i].name = name
  IN text[i].value

\* lines 204-219: the fields of the dependency sections, in the order of
\* dependencyTypes and, within a section, of the text
InSection(text, section) == SelectSeq(text, LAMBDA f : f.section = section)
RECURSIVE ScanTypes(_, _)
ScanTypes(text, k) ==
  IF k > Len(dependencyTypes) THEN <<>>
  ELSE InSection(text, dependencyTypes[k]) \o ScanTypes(text, k + 1)

\* lines 692-698: deps keeps the keys with a new range, given by new[i] for
\* the i-th key, other than the old one
RECURSIVE Keep(_, _, _)
Keep(keys, new, i) ==
  IF i > Len(keys) THEN <<>>
  ELSE (IF new[i] = keys[i].value THEN <<>>
        ELSE <<[type |-> keys[i].section, name |-> keys[i].name,
                old |-> keys[i].value, new |-> new[i]]>>)
       \o Keep(keys, new, i + 1)

\* the resolution of a name depends on its old range and the policy only
SameResolution(d) ==
  \A i, j \in DOMAIN d :
    (d[i].name = d[j].name /\ d[i].old = d[j].old) => d[i].new = d[j].new

\* two keys of one name and one old range get the same new range
SameChoice(keys, new) ==
  \A i, j \in DOMAIN keys :
    (keys[i].name = keys[j].name /\ keys[i].value = keys[j].value)
      => new[i] = new[j]

\* the regular expression of line 459:  "name": +"old"
OnlySpaces(gap) == Len(gap) >= 1 /\ \A i \in DOMAIN gap : gap[i] = " "
Matches(f, name, old) == f.name = name /\ OnlySpaces(f.gap) /\ f.value = old

\* line 460: String.prototype.replace with a global regular expression
Replace(text, name, old, new) ==
  [i \in DOMAIN text |->
     IF Matches(text[i], name, old)
       THEN [text[i] EXCEPT !.gap = <<" ">>, !.value = new]
       ELSE text[i]]

\* lines 457-461: the loop over Object.keys(deps)
RECURSIVE PatchFrom(_, _, _)
PatchFrom(text, d, i) ==
  IF i > Len(d) THEN text
  ELSE PatchFrom(Replace(text, d[i].name, d[i].old, d[i].new), d, i + 1)

InitPatch ==
  /\ EngineIdle
  /\ RunIdle
  /\ RangeIdle
  /\ CheckIdle
  /\ ScanIdle
  /\ GateIdle
  /\ TagIdle
  /\ PartIdle
  /\ FindIdle
  /\ patchPc = "start"
  /\ pkgStr \in Texts
  /\ \E new \in [1..MaxFields -> Specifiers] :
       /\ SameChoice(ScanTypes(pkgStr, 1), new)
       /\ deps = Keep(ScanTypes(pkgStr, 1), new, 1)
  /\ SameResolution(deps)
  /\ newPkgStr = pkgStr

updatePackageJson ==
  /\ patchPc = "start"
  /\ newPkgStr' = PatchFrom(pkgStr, deps, 1)
  /\ patchPc' = "patched"
  /\ UNCHANGED <<pkgStr, deps>>
  /\ UNCHANGED <<engineVars, runVars, rangeVars, checkVars, scanVars,
                 gateVars, tagVars, partVars,
                 findVars>>

NextPatch == updatePackageJson

SpecPatch == InitPatch /\ [][NextPatch]_vars

---------------------------------------------------------------------------
\* updateRange (lines 466-468) on range strings, character by character.

\* a comparator is an operator, an x.y.z version and a prerelease suffix;
\* a range joins its comparators with a separator
Operators == {<<>>, <<"^">>, <<">", "=">>, <<"<">>}
VersionStrs == {<<"1", ".", "0", ".", "0">>, <<"1", "0", ".", "2", ".", "3">>}
Suffixes == {<<>>, <<"-", "1">>, <<"-", "r", "c", ".", "1">>}
Separators == {<<" ">>, <<" ", "|", "|", " ">>}
Comparators == [op : Operators, v : VersionStrs, pre : Suffixes, sep : Separators]
NewVersionStrs == {<<"2", ".", "0", ".", "0">>, <<"2", ".", "0", ".", "0", "-", "1">>}

\* the string of the comparators from the k-th on; sep stands before every
\* comparator but the first
RECURSIVE RangeStr(_, _)
RangeStr(cs, k) ==
  IF k > Len(cs) THEN <<>>
  ELSE (IF k = 1 THEN <<>> ELSE cs[k].sep)
       \o cs[k].op \o cs[k].v \o cs[k].pre \o RangeStr(cs, k + 1)

IsDigit(c) == c \in {"0", "1", "2", "3", "4", "5", "6", "7", "8", "9"}

\* [0-9]+ from position i: the position after the longest run of digits
RECURSIVE DigitsEnd(_, _)
DigitsEnd(str, i) ==
  IF i <= Len(str) /\ IsDigit(str[i]) THEN DigitsEnd(str, i + 1) ELSE i

IsChar(str, i, c) == i <= Len(str) /\ str[i] = c

\* .+ from position i: the position after the rest of the line
RECURSIVE LineEnd(_, _)
LineEnd(str, i) ==
  IF i <= Len(str) /\ str[i] # "\n" THEN LineEnd(str, i + 1) ELSE i

\* (-.+)? from position i: greedy, to the end of the line
SuffixEnd(str, i) ==
  IF IsChar(str, i, "-") /\ LineEnd(str, i + 1) > i + 1
    THEN LineEnd(str, i + 1)
    ELSE i

\* /[0-9]+\.[0-9]+\.[0-9]+(-.+)?/ tried at position i: the position after
\* the match, 0 when there is none
MatchEnd(str, i) ==
  LET a == DigitsEnd(str, i)
      b == DigitsEnd(str, a + 1)
      c == DigitsEnd(str, b + 1)
  IN IF /\ a > i /\ IsChar(str, a, ".")
        /\ b > a + 1 /\ IsChar(str, b, ".")
        /\ c > b + 1
       THEN SuffixEnd(str, c)
       ELSE 0

\* String.prototype.replace with the g flag, from position i on
RECURSIVE ReplaceFrom(_, _, _)
ReplaceFrom(str, i, v) ==
  IF i > Len(str) THEN <<>>
  ELSE IF MatchEnd(str, i) # 0 THEN v \o ReplaceFrom(str, MatchEnd(str, i), v)
  ELSE <<str[i]>> \o ReplaceFrom(str, i + 1, v)

updateRangeStr(range, v) == ReplaceFrom(range, 1, v)

InitRange ==
  /\ EngineIdle
  /\ RunIdle
  /\ PatchIdle
  /\ CheckIdle
  /\ ScanIdle
  /\ GateIdle
  /\ TagIdle
  /\ PartIdle
  /\ FindIdle
  /\ rangePc = "start"
  /\ comparators \in UNION {[1..n -> Comparators] : n \in 1..MaxComparators}
  /\ \A k \in DOMAIN comparators : comparators[k].sep = <<" ">> \/ k > 1
  /\ versionStr \in NewVersionStrs
  /\ newRangeStr = <<>>

UpdateRange ==
  /\ rangePc = "start"
  /\ newRangeStr' = updateRangeStr(RangeStr(comparators, 1), versionStr)
  /\ rangePc' = "done"
  /\ UNCHANGED <<comparators, versionStr>>
  /\ UNCHANGED <<engineVars, runVars, patchVars, checkVars, scanVars,
                 gateVars, tagVars, partVars,
                 findVars>>

NextRange == UpdateRange

SpecRange == InitRange /\ [][NextRange]_vars

---------------------------------------------------------------------------
\* checkUrlDep (lines 588-649) for a specifier pinned to a commit hash.

\* The old specifier is  user/repo#ref  with ref a run of hex digits; on
\* such a string partsRe (line 29) gives user, repo and oldRef = ref, and
\* hashRe (line 30) accepts oldRef.
HexChars == {"a", "1"}
NameChars == HexChars \cup {"x"}
StrsOver(chars, lo, hi) == UNION {[1..n -> chars] : n \in lo..hi}
UrlSpecs ==
  [user : StrsOver(NameChars, 1, MaxName),
   repo : StrsOver(NameChars, 1, MaxName),
   ref : StrsOver(HexChars, 1, MaxRef)]
SpecStr(u) == u.user \o <<"/">> \o u.repo \o <<"#">> \o u.ref

\* the answer of the commits fetch: not ok, or ok with the sha of data[0]
CommitAnswers == [ok : BOOLEAN, sha : StrsOver(HexChars, ShaLen, ShaLen)]

\* String.prototype.substring(0, n)
Substring(str, n) == SubSeq(str, 1, IF n < Len(str) THEN n ELSE Len(str))

\* str has pat at position i
HasAt(str, pat, i) ==
  /\ i + Len(pat) - 1 <= Len(str)
  /\ SubSeq(str, i, i + Len(pat) - 1) = pat

\* String.prototype.replace with a string pattern: the first occurrence
ReplaceFirst(str, pat, new) ==
  IF \E i \in 1..Len(str) : HasAt(str, pat, i)
    THEN LET i == CHOOSE i \in 1..Len(str) :
                    /\ HasAt(str, pat, i)
                    /\ \A j \in 1..(i - 1) : ~HasAt(str, pat, j)
         IN SubSeq(str, 1, i - 1) \o new \o SubSeq(str, i + Len(pat), Len(str))
    ELSE str

\* lines 592-611: the hash branch; <<>> stands for undefined
checkUrlDep(u, answer) ==
  LET old == SpecStr(u)
      oldRef == u.ref
      newRef == Substring(answer.sha, Len(oldRef))
  IN IF ~answer.ok THEN <<>>
     ELSE IF oldRef # newRef THEN ReplaceFirst(old, oldRef, newRef)
     ELSE <<>>

InitCheck ==
  /\ EngineIdle
  /\ RunIdle
  /\ PatchIdle
  /\ RangeIdle
  /\ ScanIdle
  /\ GateIdle
  /\ TagIdle
  /\ PartIdle
  /\ FindIdle
  /\ checkPc = "start"
  /\ urlDep \in UrlSpecs
  /\ commits \in CommitAnswers
  /\ checkResult = <<>>

CheckUrlDep ==
  /\ checkPc = "start"
  /\ checkResult' = checkUrlDep(urlDep, commits)
  /\ checkPc' = "done"
  /\ UNCHANGED <<urlDep, commits>>
  /\ UNCHANGED <<engineVars, runVars, patchVars, rangeVars, scanVars,
                 gateVars, tagVars, partVars,
                 findVars>>

NextCheck == CheckUrlDep

SpecCheck == InitCheck /\ [][NextCheck]_vars

---------------------------------------------------------------------------
\* The dependency scan with --include and --exclude, lines 200-219.

\* a section of the manifest: some of the names, each with a semver range
\* or with another specifier
Kinds == {"range", "url"}
Pkgs == UNION {[ns -> Kinds] : ns \in SUBSET Names}

\* What minimist gives for an option that is declared neither boolean nor
\* string (lines 43-87): undefined when absent, true without a value, the
\* string when given once, an array of the strings when given repeatedly.
\* A string is held as the list of the names between its commas.
NameLists == UNION {[1..n -> Names] : n \in 1..MaxList}
ArgValues ==
  [kind : {"undefined", "true"}, strs : {<<>>}]
    \cup [kind : {"string"}, strs : {<<l>> : l \in NameLists}]
    \cup [kind : {"array"}, strs : NameLists \X NameLists]

\* the names an option value lists, however it is given
ListedBy(arg) ==
  UNION {{arg.strs[i][j] : j \in DOMAIN arg.strs[i]} : i \in DOMAIN arg.strs}

\* lines 201-202:  if (arg && arg !== true) list = arg.split(",")
\* an array has no method split: the call throws a TypeError
SplitThrows(arg) == arg.kind = "array"
Filtering(arg) == arg.kind \in {"string", "array"}
SplitOf(arg) == {arg.strs[1][j] : j \in DOMAIN arg.strs[1]}

\* lines 206-208
Passes(name, include, exclude) ==
  /\ (Filtering(include) => name \in SplitOf(include))
  /\ (Filtering(exclude) => name \notin SplitOf(exclude))

InitScan ==
  /\ EngineIdle
  /\ RunIdle
  /\ PatchIdle
  /\ RangeIdle
  /\ CheckIdle
  /\ GateIdle
  /\ TagIdle
  /\ PartIdle
  /\ FindIdle
  /\ scanPc = "start"
  /\ pkg \in Pkgs
  /\ filters \in [include : ArgValues, exclude : ArgValues]
  /\ scanned = {}

\* lines 200-219; an exception at the top level ends the process
ScanDeps ==
  /\ scanPc = "start"
  /\ IF SplitThrows(filters.include) \/ SplitThrows(filters.exclude)
       THEN /\ scanPc' = "crashed"
            /\ scanned' = {}
       ELSE /\ scanPc' = "done"
            /\ scanned' = {name \in DOMAIN pkg :
                             Passes(name, filters.include, filters.exclude)}
  /\ UNCHANGED <<pkg, filters>>
  /\ UNCHANGED <<engineVars, runVars, patchVars, rangeVars, checkVars,
                 gateVars, tagVars, partVars,
                 findVars>>

NextScan == ScanDeps

SpecScan == InitScan /\ [][NextScan]_vars

---------------------------------------------------------------------------
\* The downgrade gate with its option: parseMixedArg (lines 651-661) on
\* args["allow-downgrade"] (line 147) and the test of line 575.

\* What minimist gives for an option declared as string (lines 54-64):
\* undefined when absent, "" without a value, the string when given once, an
\* array of the strings when given repeatedly.  A string is held as the
\* list of the names between its commas.
MixedArgs ==
  [kind : {"undefined", "empty"}, strs : {<<>>}]
    \cup [kind : {"string"}, strs : {<<l>> : l \in NameLists}]
    \cup [kind : {"array"}, strs : NameLists \X NameLists]

\* String.prototype.split(","): one string per name
SplitComma(l) == [i \in DOMAIN l |-> <<l[i]>>]

\* parseMixedArg without the split at commas
parseMixedArgNoSplit(arg) ==
  CASE arg.kind = "empty" -> [kind |-> "true", items |-> <<>>]
    [] arg.kind = "string" -> [kind |-> "array", items |-> arg.strs]
    [] arg.kind = "array" -> [kind |-> "array", items |-> arg.strs]
    [] OTHER -> [kind |-> "false", items |-> <<>>]

\* lines 651-661: true, false or an array of strings
parseMixedArg(arg) ==
  CASE arg.kind = "empty" -> [kind |-> "true", items |-> <<>>]
    [] arg.kind = "string" ->
         [kind |-> "array",
          items |-> IF Len(arg.strs[1]) > 1
                      THEN SplitComma(arg.strs[1]) ELSE arg.strs]
    [] arg.kind = "array" -> [kind |-> "array", items |-> arg.strs]
    [] OTHER -> [kind |-> "false", items |-> <<>>]

\* line 575: allowDowngrade === true, or an array that includes data.name
AllowsDowngrade(parsed, name) ==
  \/ parsed.kind = "true"
  \/ /\ parsed.kind = "array"
     /\ \E i \in DOMAIN parsed.items : parsed.items[i] = <<name>>

\* one package in latest mode against a small document
InitGate ==
  /\ pc = "start"
  /\ oldRange \in Ranges
  /\ data \in Documents(MaxSmallCatalog)
  /\ \E p \in BOOLEAN, r \in BOOLEAN, c \in Ceilings :
       opts = OptsOf(oldRange, p, r, FALSE, c)
  /\ downgradeArg \in MixedArgs
  /\ pkgName \in Names
  /\ allowDowngrade = AllowsDowngrade(parseMixedArg(downgradeArg), pkgName)
  /\ newVersion = Null
  /\ newRange = oldRange
  /\ reported = FALSE
  /\ RunIdle
  /\ PatchIdle
  /\ RangeIdle
  /\ CheckIdle
  /\ ScanIdle
  /\ TagIdle
  /\ PartIdle
  /\ FindIdle

NextGate == Resolve

SpecGate == InitGate /\ [][NextGate]_vars

---------------------------------------------------------------------------
\* checkUrlDep (lines 588-649) for a specifier pinned to a version tag.

\* A tag is an optional leading "v" and a body: a semver version or a text
\* that is no valid semver.  partsRe (line 29) gives an oldRef of the form
\* v?x.y.z, a release; a release with a leading zero is no valid semver.
NotSemver == <<-3>>
TagBodies == {<<1, 0, 0, 0>>, <<1, 0, 1, 0>>, <<1, 1, 0, 1>>, NotSemver}
Tags == [v : BOOLEAN, body : TagBodies]
OldTags == {t \in Tags : t.body = NotSemver \/ ~HasPre(t.body)}

\* the answer of the tags fetch: not ok, or ok with the list of refs
TagLists == UNION {[1..n -> Tags] : n \in 0..MaxTags}
TagAnswers == [ok : BOOLEAN, tags : TagLists]

\* semver.valid(tag.replace(/^v/, ""))
ValidBare(tag) == tag.body # NotSemver

\* lines 631-641: the loop over tags; g is greatestTag
RECURSIVE GreatestFrom(_, _, _)
GreatestFrom(tags, g, i) ==
  IF i > Len(tags) THEN g
  ELSE IF ValidBare(tags[i]) /\ Gt(tags[i].body, g.body)
    THEN GreatestFrom(tags, tags[i], i + 1)
    ELSE GreatestFrom(tags, g, i + 1)

\* line 622: lastTag is undefined for an empty list and lastTag.replace
\* throws a TypeError
LastTagThrows(old, answer, useGreatest) ==
  answer.ok /\ ValidBare(old) /\ ~useGreatest /\ answer.tags = <<>>

\* lines 612-648: the tag branch; the result holds newRef, or is empty for
\* undefined
checkUrlDepTag(old, answer, useGreatest) ==
  IF ~answer.ok THEN <<>>
  ELSE IF ~ValidBare(old) THEN <<>>
  ELSE IF ~useGreatest
    THEN LET lastTag == answer.tags[Len(answer.tags)]
         IN IF ~ValidBare(lastTag) THEN <<>>
            ELSE IF Neq(old.body, lastTag.body) THEN <<lastTag>>
            ELSE <<>>
    ELSE LET greatestTag == GreatestFrom(answer.tags, old, 1)
         IN IF Neq(old.body, greatestTag.body) THEN <<greatestTag>> ELSE <<>>

InitTag ==
  /\ EngineIdle
  /\ RunIdle
  /\ PatchIdle
  /\ RangeIdle
  /\ CheckIdle
  /\ ScanIdle
  /\ GateIdle
  /\ PartIdle
  /\ FindIdle
  /\ tagPc = "start"
  /\ oldTag \in OldTags
  /\ tagsAnswer \in TagAnswers
  /\ tagGreatest \in BOOLEAN
  /\ tagResult = <<>>

\* a rejected checkUrlDep rejects main (line 702)
CheckUrlDepTag ==
  /\ tagPc = "start"
  /\ IF LastTagThrows(oldTag, tagsAnswer, tagGreatest)
       THEN /\ tagPc' = "rejected"
            /\ tagResult' = <<>>
       ELSE /\ tagPc' = "done"
            /\ tagResult' = checkUrlDepTag(oldTag, tagsAnswer, tagGreatest)
  /\ UNCHANGED <<oldTag, tagsAnswer, tagGreatest>>
  /\ UNCHANGED <<engineVars, runVars, patchVars, rangeVars, checkVars, scanVars,
                 gateVars, partVars, findVars>>

NextTag == CheckUrlDepTag

SpecTag == InitTag /\ [][NextTag]_vars

---------------------------------------------------------------------------
\* main (lines 687-698) on a valid semver range that embeds no x.y.z, with
\* the range as text: findNewVersion (lines 527-585) over semver.coerce and
\* updateRange (lines 466-468).

DigitChars == <<"0", "1", "2", "3", "4", "5", "6", "7", "8", "9">>
Digit(n) == DigitChars[n + 1]
DigitVal(c) == CHOOSE n \in 0..9 : DigitChars[n + 1] = c

\* the ranges "*", "x", "", "^N", "~N.M" and "N.x": semver.validRange
\* accepts each of them (line 212)
PartialRanges ==
  {<<"*">>, <<"x">>, <<>>}
    \cup {<<"^", Digit(n)>> : n \in Nums}
    \cup {<<"~", Digit(n), ".", Digit(m)>> : n \in Nums, m \in Nums}
    \cup {<<Digit(n), ".", "x">> : n \in Nums}

\* the number written at positions i..(j - 1)
RECURSIVE NumberAt(_, _, _)
NumberAt(str, i, j) ==
  IF j <= i THEN 0 ELSE 10 * NumberAt(str, i, j - 1) + DigitVal(str[j - 1])

\* the first position from i on that holds a digit, 0 when there is none
RECURSIVE FirstDigit(_, _)
FirstDigit(str, i) ==
  IF i > Len(str) THEN 0
  ELSE IF IsDigit(str[i]) THEN i ELSE FirstDigit(str, i + 1)

\* semver.coerce(str): the first number of the text with up to two further
\* numbers, each after a dot, missing ones being 0; Null when the text
\* holds no digit
CoerceStr(str) ==
  LET i == FirstDigit(str, 1)
      a == DigitsEnd(str, i)
      b == DigitsEnd(str, a + 1)
      c == DigitsEnd(str, b + 1)
      hasMinor == IsChar(str, a, ".") /\ b > a + 1
      hasPatch == hasMinor /\ IsChar(str, b, ".") /\ c > b + 1
  IN IF i = 0 THEN Null
     ELSE <<NumberAt(str, i, a),
            IF hasMinor THEN NumberAt(str, a + 1, b) ELSE 0,
            IF hasPatch THEN NumberAt(str, b + 1, c) ELSE 0,
            0>>

\* a version as text
VersionChars(v) ==
  <<Digit(v[1]), ".", Digit(v[2]), ".", Digit(v[3])>>
    \o (IF HasPre(v) THEN <<"-", Digit(v[4])>> ELSE <<>>)

\* line 478 on the text
isRangePrereleaseStr(str) ==
  \E i \in 1..Len(str) :
    LET a == DigitsEnd(str, i)
        b == DigitsEnd(str, a + 1)
        c == DigitsEnd(str, b + 1)
    IN /\ a > i /\ IsChar(str, a, ".")
       /\ b > a + 1 /\ IsChar(str, b, ".")
       /\ c > b + 1 /\ IsChar(str, c, "-")
       /\ c < Len(str)

Policies ==
  [usePre : BOOLEAN, useRel : BOOLEAN, useGreatest : BOOLEAN,
   ceiling : Ceilings, allowDowngrade : BOOLEAN]

\* the options main hands to findNewVersion; the range is held by the
\* version semver.coerce gives for it and its prerelease test
PartOpts(range, policy) ==
  LET base == CoerceStr(range)
      v == IF isRangePrereleaseStr(range)
             THEN <<base[1], base[2], base[3], 1>> ELSE base
  IN OptsOf([op |-> "^", v |-> v], policy.usePre, policy.useRel,
            policy.useGreatest, policy.ceiling)

\* lines 503-508 with tempVersion null: semver.diff(null, ...) throws on the
\* first version that the prerelease filter lets through
DiffOfNullThrows(d, policy) ==
  \E i \in 1..Len(d.versions) :
    ~(HasPre(d.versions[i].v) /\ (~policy.usePre \/ policy.useRel))

\* the string "*" findNewVersion returns at line 528
Star == <<-4>>

\* lines 527-585 on the text of a range: Star, a version, Null or Throw
findNewVersionStr(d, range, policy) ==
  IF range = <<"*">> THEN Star
  ELSE IF CoerceStr(range) = Null
    THEN \* rangeToVersion gives null (line 485); line 536 throws
         IF DiffOfNullThrows(d, policy) \/ ~policy.useGreatest
           THEN Throw ELSE Null
    ELSE findNewVersion(d, PartOpts(range, policy), policy.allowDowngrade)

\* what String.prototype.replace puts in for newVersion
ReplacementOf(version) ==
  IF version = Null THEN <<"n", "u", "l", "l">>
  ELSE IF version = Star THEN <<"*">>
  ELSE VersionChars(version)

InitPart ==
  /\ EngineIdle
  /\ RunIdle
  /\ PatchIdle
  /\ RangeIdle
  /\ CheckIdle
  /\ ScanIdle
  /\ GateIdle
  /\ TagIdle
  /\ FindIdle
  /\ partPc = "start"
  /\ partRange \in PartialRanges
  /\ partData \in Documents(MaxSmallCatalog)
  /\ partPolicy \in Policies
  /\ partPolicy.useGreatest =>
       (NoTimes(partData.versions) /\ ~partPolicy.allowDowngrade)
  /\ partVersion = Null
  /\ partNewRange = partRange
  /\ partKept = FALSE

\* lines 687-698; an exception rejects main
ResolvePartial ==
  /\ partPc = "start"
  /\ partVersion' = findNewVersionStr(partData, partRange, partPolicy)
  /\ IF partVersion' = Throw
       THEN /\ partPc' = "failed"
            /\ partNewRange' = partRange
            /\ partKept' = FALSE
       ELSE /\ partPc' = "resolved"
            /\ partNewRange' =
                 updateRangeStr(partRange, ReplacementOf(partVersion'))
            /\ partKept' = ~(partVersion' = Null \/ partRange = partNewRange')
  /\ UNCHANGED <<partRange, partData, partPolicy>>
  /\ UNCHANGED <<engineVars, runVars, patchVars, rangeVars, checkVars, scanVars,
                 gateVars, tagVars, findVars>>

NextPart == ResolvePartial

SpecPart == InitPart /\ [][NextPart]_vars

---------------------------------------------------------------------------
\* The manifest lookup without --file: lines 167-171 and findSync (lines
\* 263-277).  A directory is held by its depth below the filesystem root,
\* the current directory and its ancestors being the depths 0..cwdDepth.

\* lines 264-269: accessSync(join(dir, filename)) succeeds
Accessible(dir) == dir \in holders

\* line 272: dirname(dir) === dir, which holds for the root alone
IsRoot(dir) == dir = 0

\* lines 263-277: the depth of the directory found, -1 for null, -2 for the
\* ReferenceError of line 275, which calls find, a name that nothing
\* defines
findSync(dir) ==
  IF Accessible(dir) THEN dir
  ELSE IF IsRoot(dir) THEN -1
  ELSE -2

InitFind ==
  /\ EngineIdle
  /\ RunIdle
  /\ PatchIdle
  /\ RangeIdle
  /\ CheckIdle
  /\ ScanIdle
  /\ GateIdle
  /\ TagIdle
  /\ PartIdle
  /\ findPc = "start"
  /\ cwdDepth \in 0..MaxDepth
  /\ holders \in SUBSET (0..cwdDepth)
  /\ packageFile = -1

\* lines 167-171; an exception at the top level ends the process
FindManifest ==
  /\ findPc = "start"
  /\ LET found == findSync(cwdDepth)
     IN /\ findPc' = CASE found = -2 -> "crashed"
                       [] found = -1 -> "notfound"
                       [] OTHER -> "found"
        /\ packageFile' = IF found >= 0 THEN found ELSE -1
  /\ UNCHANGED <<cwdDepth, holders>>
  /\ UNCHANGED <<engineVars, runVars, patchVars, rangeVars, checkVars, scanVars,
                 gateVars, tagVars, partVars>>

NextFind == FindManifest

SpecFind == InitFind /\ [][NextFind]_vars

---------------------------------------------------------------------------
\* Properties of the resolution engine.

AllClasses == {"patch", "minor", "major"}

\* semver.coerce(opts.range).version
OldVersion == Coerce(oldRange.v)

\* findNewVersion returned a version
Returned == pc = "resolved" /\ IsVersion(newVersion)

\* the entries of data.versions
CatalogEntries == {data.versions[i] : i \in 1..Len(data.versions)}

\* the diff class d from the old version is within the ceiling, after
\* stripping a leading "pre", or is the bare "prerelease"
WithinCeiling(d) == d = "prerelease" \/ StripPre(d) \in opts.semvers

\* C1: when the old range is not a prerelease and allow-downgrade does not
\* apply, findNewVersion never returns a version lower than the old range's
\* version, in every mode and under every policy.
C1_NoSilentDowngrade ==
  (Returned /\ ~isRangePrerelease(oldRange) /\ ~allowDowngrade)
    => ~Lt(newVersion, OldVersion)

\* C2: a returned version other than coerce(r) has a diff class from
\* coerce(r) that, stripped of "pre", lies within the ceiling or is the bare
\* "prerelease"; under the patch ceiling it keeps major and minor, under the
\* minor ceiling it keeps major.
C2_Ceiling ==
  (Returned /\ newVersion # OldVersion) =>
    /\ WithinCeiling(Diff(OldVersion, newVersion))
    /\ "major" \notin opts.semvers => newVersion[1] = OldVersion[1]
    /\ "minor" \notin opts.semvers => newVersion[2] = OldVersion[2]

\* C2 witness: under the patch ceiling the latest dist-tag is returned while
\* the catalog also holds a version outside the ceiling.
C2_Witness ==
  /\ Returned /\ reported
  /\ ~opts.useGreatest
  /\ opts.semvers = {"patch"}
  /\ newVersion = data.latest
  /\ \E e \in CatalogEntries : Diff(OldVersion, e.v) \in {"minor", "major"}

\* a catalog version passes the prerelease filter and the diff-class filter
Qualifies(v) ==
  ~SkipPrerelease(opts, v) /\ ~SkipClass(opts, Diff(OldVersion, v))

\* C3: in greatest mode no qualifying catalog version is greater than the
\* version findNewVersion returns.
C3_GreatestIsMaximum ==
  (Returned /\ opts.useGreatest) =>
    \A e \in CatalogEntries : Qualifies(e.v) => ~Gt(e.v, newVersion)

\* C4: resolving again with the new range as the old range, against the same
\* catalog and policy, yields no change.
C4_Idempotent ==
  [][(pc = "resolved" /\ pc' = "resolved") => ~reported']_vars

\* the default policy: latest mode, no prerelease, no release-only, major ceiling
DefaultPolicy ==
  /\ ~opts.useGreatest /\ ~opts.usePre /\ ~opts.useRel
  /\ opts.semvers = AllClasses

\* C5: under the default policy and a non-prerelease old range, the latest
\* dist-tag is returned whenever it is greater than the old range's version.
C5_LatestFollowsTag ==
  (/\ pc = "resolved"
   /\ DefaultPolicy
   /\ ~isRangePrerelease(oldRange)
   /\ IsVersion(data.latest)
   /\ Gt(data.latest, OldVersion))
    => newVersion = data.latest

\* C5 witness: the dist-tag is returned although another catalog version was
\* published later.
C5_Witness ==
  /\ pc = "resolved" /\ reported
  /\ DefaultPolicy
  /\ ~isRangePrerelease(oldRange)
  /\ IsVersion(data.latest) /\ Gt(data.latest, OldVersion)
  /\ newVersion = data.latest
  /\ \E e, l \in CatalogEntries : l.v = data.latest /\ e.t > l.t

\* the case of the prerelease-tagged-latest override
OverrideCase ==
  /\ pc = "resolved"
  /\ ~opts.useGreatest
  /\ isVersionPrerelease(data.latest)
  /\ ~opts.useRel
  /\ findVersion(data, opts) # data.latest
  /\ WithinCeiling(Diff(OldVersion, data.latest))

C7_ReleaseOnly == (Returned /\ opts.useRel) => ~HasPre(newVersion)

\* C7 witness: release-only together with the prerelease policy, a
\* prerelease old range and a prerelease dist-tag, and a version is reported.
C7_Witness ==
  /\ Returned /\ reported
  /\ opts.useRel /\ opts.usePre
  /\ ~opts.useGreatest
  /\ isRangePrerelease(oldRange)
  /\ isVersionPrerelease(data.latest)

---------------------------------------------------------------------------
\* Properties of the registry fetch protocol.

\* a fetch that throws or answers with a non-success status
Failure(res) == res \in {"status", "nostatus", "throw"}
FirstFailed(d) == Len(answers[d]) >= 1 /\ Failure(answers[d][1])
RetryFailed(d) == Len(answers[d]) = 2 /\ Failure(answers[d][2])
\* the catalog fetch of d has failed for good
FetchFailed(d) ==
  \/ fetched[d] = <<"default">> /\ FirstFailed(d)
  \/ RetryFailed(d)
\* d was resolved from a fetched document, and reported when it has an update
ResolvedAndReported(d) ==
  /\ getPc[d] = "fulfilled"
  /\ hasUpdate[d] => d \in printed /\ outcome = "results"

\* C8 (as stated): when the catalog fetch of one dependency has failed, the
\* finished run has still resolved every other dependency and reported those
\* with an update.
C8_Isolation ==
  mainPc = "finished" =>
    \A d \in Deps : FetchFailed(d) =>
      \A e \in Deps \ {d} : ~FetchFailed(e) => ResolvedAndReported(e)

\* C8 (amended): a run in which the catalog fetch of one dependency has failed
\* for good finishes with the error and reports no dependency at all.
C8_FailureAborts ==
  mainPc = "finished" =>
    \A d \in Deps : FetchFailed(d) => outcome = "error" /\ printed = {}

\* the fetch of 2 failed after 1 had been fetched and has an update
C8_Witness ==
  /\ mainPc = "finished"
  /\ Deps = {1, 2}
  /\ answers[1] = <<"ok">> /\ hasUpdate[1]
  /\ FetchFailed(2)
  /\ 1 \notin printed

\* the parts of C9 on the number and the order of fetches
FetchesOfProtocol ==
  \A d \in Deps :
    /\ Len(fetched[d]) <= 2
    /\ Len(answers[d]) <= Len(fetched[d])
    /\ (fetched[d] # <<>> /\ fetched[d][1] = "default") => Len(fetched[d]) = 1
    /\ (fetched[d] # <<>> /\ fetched[d][1] = "custom") =>
         IF FirstFailed(d) THEN fetched[d] = <<"custom", "default">>
                           ELSE fetched[d] = <<"custom">>
DefaultFailureAborts ==
  mainPc = "finished" =>
    \A d \in Deps :
      (fetched[d] = <<"default">> /\ FirstFailed(d)) => outcome = "error"
\* every failure of the finished run is the failure of a retry
OnlyRetriesFailed ==
  /\ \E d \in Deps : RetryFailed(d)
  /\ \A d \in Deps : getPc[d] = "fulfilled" \/ RetryFailed(d)

\* C9 (as stated): a failed fetch against the default registry is not retried
\* and aborts the run; a failed fetch against another registry is followed by
\* exactly one fetch against the default registry; no package is fetched more
\* than twice; when the retry fails too, only that dependency fails and the
\* run goes on to report the others.
C9_RetryProtocol ==
  /\ FetchesOfProtocol
  /\ DefaultFailureAborts
  /\ (mainPc = "finished" /\ OnlyRetriesFailed) =>
       /\ outcome # "error"
       /\ \A e \in Deps : ~RetryFailed(e) => ResolvedAndReported(e)

\* C9 (amended): as C9, but a failed retry aborts the whole run as well.
C9_RetryProtocolAborting ==
  /\ FetchesOfProtocol
  /\ DefaultFailureAborts
  /\ mainPc = "finished" =>
       \A d \in Deps : RetryFailed(d) => outcome = "error" /\ printed = {}

\* a retry on the default registry has failed after the other dependency was fetched
C9_Witness ==
  /\ mainPc = "finished"
  /\ Deps = {1, 2}
  /\ fetched[1] = <<"custom", "default">>
  /\ RetryFailed(1)
  /\ answers[2] = <<"ok">> /\ hasUpdate[2]
  /\ outcome = "error"

---------------------------------------------------------------------------
\* Properties of the manifest patch.

\* C10: after updatePackageJson, the re-parsed text holds, for every reported
\* dependency (section, name), that dependency's new specifier, whatever the
\* order of the keys, the specifiers of the other sections and the whitespace
\* after the colon.
C10_PatchRoundTrip ==
  patchPc = "patched" =>
    \A i \in DOMAIN deps :
      ValueAt(newPkgStr, deps[i].type, deps[i].name) = deps[i].new

\* the field i of the manifest belongs to a reported dependency
IsReportedField(i) ==
  \E k \in DOMAIN deps :
    deps[k].type = pkgStr[i].section /\ deps[k].name = pkgStr[i].name

\* C11: the replacements leave every field that is not the field of a
\* reported dependency (same section and name) as it was in the text read,
\* also a field of the same name and old specifier in another section.
C11_NoCollateralEdits ==
  patchPc = "patched" =>
    \A i \in DOMAIN pkgStr : ~IsReportedField(i) => newPkgStr[i] = pkgStr[i]

---------------------------------------------------------------------------
\* Properties of updateRange.

\* the range with the version and suffix of every comparator replaced by v
RECURSIVE Rewritten(_, _, _)
Rewritten(cs, k, v) ==
  IF k > Len(cs) THEN <<>>
  ELSE (IF k = 1 THEN <<>> ELSE cs[k].sep)
       \o cs[k].op \o v \o Rewritten(cs, k + 1, v)

\* C12: updateRange replaces the x.y.z version and the optional prerelease
\* suffix of the range by the new version and keeps every other character,
\* also when more text follows a suffix and with several comparators.
C12_ShapePreserved ==
  rangePc = "done" => newRangeStr = Rewritten(comparators, 1, versionStr)

---------------------------------------------------------------------------
\* Properties of a whole run.

Finished == mainPc = "finished"
\* the run ended without error and printed depsKeys, in that order
Reported == Finished /\ outcome # "error"
Ascending(keys) == \A i, j \in DOMAIN keys : i < j => keys[i] < keys[j]

NoFetchIssued ==
  /\ \A d \in Deps : fetched[d] = <<>>
  /\ \A d \in UrlDeps : urlPc[d] \in UrlKinds
AllFetchesCompleted ==
  /\ \A d \in Deps : getPc[d] = "fulfilled"
  /\ \A d \in UrlDeps : urlPc[d] \in {"updated", "none", "notok", "unrecognised"}
LateWrite ==
  /\ writes <= 1
  /\ writes = 1 => (Finished /\ AllFetchesCompleted /\ reads = 1)

\* C14 (as stated): every run reads the manifest exactly once and writes it
\* at most once, and only when every registry and repository fetch has
\* completed and nothing is pending.
C14_ReadOnceLateWrite ==
  /\ reads <= 1
  /\ Finished => reads = 1
  /\ LateWrite

\* C14 (amended): the manifest is read at most once, exactly once unless no
\* manifest file is found, in which case the run ends in an error before any
\* read or fetch; it is written at most once, and only when every registry
\* and repository fetch has completed.
C14_ReadAtMostOnceLateWrite ==
  /\ reads <= 1
  /\ (Finished /\ reads = 0) => (outcome = "error" /\ NoFetchIssued)
  /\ (mainPc \in {"awaiting", "urlawait"}) => reads = 1
  /\ LateWrite

\* the manifest is written after registry and repository fetches
C14_Witness ==
  /\ writes = 1
  /\ reads = 1
  /\ \E d \in Deps : answers[d] # <<>>
  /\ \E d \in UrlDeps : urlPc[d] = "updated"

\* C15: a run that ends in an error exits with a non-zero code, under every
\* combination of flags.
C15_ErrorsExitNonZero == (Finished /\ outcome = "error") => exitCode # 0

\* at least one dependency has an update
SomeUpdate ==
  \/ \E d \in Deps : hasUpdate[d]
  \/ \E d \in UrlDeps : urlPc[d] = "updated"

\* C16: a run without error exits, under --error-on-outdated, with 2 when
\* there is an update and 0 when not; under --error-on-unchanged alone with
\* 0 when there is an update and 2 when not; with neither flag with 0.
C16_ExitCodes ==
  Reported =>
    exitCode = IF args.errorOnOutdated THEN (IF SomeUpdate THEN 2 ELSE 0)
               ELSE IF args.errorOnUnchanged THEN (IF SomeUpdate THEN 0 ELSE 2)
               ELSE 0

\* both flags given and an update found
C16_Witness ==
  /\ Reported
  /\ args.errorOnOutdated /\ args.errorOnUnchanged
  /\ SomeUpdate
  /\ exitCode = 2

\* the write of the manifest has failed
WriteFailed == Finished /\ writes = 1 /\ outcome = "error"

---------------------------------------------------------------------------
\* Properties of checkUrlDep.

\* the newest commit's hash, cut to the length of the old hash
TruncatedSha == Substring(commits.sha, Len(urlDep.ref))

\* C18: with the newest commit fetched, an update is reported exactly when
\* its hash, cut to the length of the old hash, differs from the old hash;
\* the new specifier is the old one with the hash at its end replaced by the
\* cut hash and nothing else changed.
C18_HashPinned ==
  (checkPc = "done" /\ commits.ok) =>
    IF TruncatedSha # urlDep.ref
      THEN checkResult =
             urlDep.user \o <<"/">> \o urlDep.repo \o <<"#">> \o TruncatedSha
      ELSE checkResult = <<>>

---------------------------------------------------------------------------
\* Properties of the dependency scan.

\* C19: with --include and --exclude given once with a comma-separated
\* list, repeatedly, or both, the scan completes and keeps exactly the
\* names of the manifest that --include names (when given) and --exclude
\* does not name (when given), semver-range and URL dependencies alike.
C19_Filters ==
  scanPc # "start" =>
    /\ scanPc = "done"
    /\ scanned =
         {name \in DOMAIN pkg :
            /\ (Filtering(filters.include) => name \in ListedBy(filters.include))
            /\ (Filtering(filters.exclude) => name \notin ListedBy(filters.exclude))}

---------------------------------------------------------------------------
\* Further properties of the resolution engine.

\* the candidate of the scan, findVersion's result
Candidate == findVersion(data, opts)
Published(v) == \E i \in 1..Len(data.versions) : data.versions[i].v = v

\* C20: in latest mode, for an old range pinned to a prerelease, when the
\* candidate of the scan is a published release greater than that prerelease
\* (the release of the same x.y.z included), findNewVersion returns it.
C20_PrereleaseToRelease ==
  (/\ pc # "start"
   /\ ~opts.useGreatest
   /\ isRangePrerelease(oldRange)
   /\ ~HasPre(Candidate)
   /\ Published(Candidate)
   /\ Gt(Candidate, oldRange.v))
    => newVersion = Candidate

\* C21: when the old range is a prerelease and release-only is not requested,
\* findNewVersion never returns a release that is not greater than the old
\* range's version, whether or not the prerelease policy is on.  The old
\* range's version is taken with its prerelease tag, the weakest reading: a
\* release not greater than it is lower than its x.y.z.
C21_NoRegressOffPrerelease ==
  (Returned /\ isRangePrerelease(oldRange) /\ ~opts.useRel /\ ~HasPre(newVersion))
    => Gt(newVersion, oldRange.v)

\* no catalog version passes the filters of the scan
NothingQualifies == \A e \in CatalogEntries : ~Qualifies(e.v)

\* latest mode reaches the reconciliation against the dist-tag and the
\* dist-tag decides the result (lines 573-583)
TagDecides ==
  /\ ~opts.useGreatest
  /\ ~ToNewPrerelease(opts, isRangePrerelease(oldRange), isVersionPrerelease(Candidate))
  /\ ~isRangePrerelease(oldRange)
  /\ IsVersion(data.latest)
  /\ ~TagOutsideCeiling(opts, Diff(OldVersion, data.latest))
  /\ ~TagIsPrereleaseOnRelease(opts, data.latest)

\* C22: when no catalog version passes the filters and the dist-tag does not
\* decide, or when the selected version equals the old range's version, the
\* dependency is dropped from the results and its range is not rewritten, in
\* latest and in greatest mode, also for a prerelease old range.
C22_NoChange ==
  (/\ pc = "resolved"
   /\ \/ NothingQualifies /\ ~TagDecides
      \/ newVersion = OldVersion)
    => ~reported

\* the catalogs that hold the records of data.versions in some order
Reorderings(s) ==
  {[i \in 1..Len(s) |-> s[p[i]]] :
     p \in {q \in [1..Len(s) -> 1..Len(s)] :
              \A i, j \in 1..Len(s) : i # j => q[i] # q[j]}}

\* no two versions carry the same publish time
NoTies ==
  \A i, j \in 1..Len(data.versions) :
    (i # j /\ data.versions[i].t = data.versions[j].t) => data.versions[i].t = 0

\* C23: findNewVersion returns the same version for every catalog that holds
\* the same records (versions, publish times, latest dist-tag) in another
\* order of enumeration, in latest mode and in greatest mode.
C23_OrderIndependent ==
  (pc = "resolved" /\ NoTies) =>
    \A s \in Reorderings(data.versions) :
      findNewVersion([data EXCEPT !.versions = s], opts, allowDowngrade) = newVersion

\* the case of the downgrade gate: latest mode, an old range that is not a
\* prerelease, the prerelease policy off, and a release dist-tag lower than
\* the old version whose diff class is within the ceiling
DowngradeCase ==
  /\ pc = "resolved"
  /\ ~opts.useGreatest
  /\ ~isRangePrerelease(oldRange)
  /\ ~opts.usePre
  /\ IsVersion(data.latest)
  /\ ~HasPre(data.latest)
  /\ Lt(data.latest, OldVersion)
  /\ StripPre(Diff(OldVersion, data.latest)) \in opts.semvers

\* the names an option value gives: the items of a comma-separated list
\* given once, or the values of an option given repeatedly
NamedBy(arg) ==
  CASE arg.kind = "string" -> {arg.strs[1][j] : j \in DOMAIN arg.strs[1]}
    [] arg.kind = "array" ->
         {arg.strs[i][1] : i \in {k \in DOMAIN arg.strs : Len(arg.strs[k]) = 1}}
    [] OTHER -> {}

\* allow-downgrade is given for all packages or names this package
DowngradeApplies ==
  downgradeArg.kind = "empty" \/ pkgName \in NamedBy(downgradeArg)

---------------------------------------------------------------------------
\* Properties of the tag check.

\* the tags that are valid semver after dropping a leading "v"
ValidTags == SelectSeq(tagsAnswer.tags, ValidBare)

\* v is the body of the candidate: of the last-listed valid tag, or of a
\* semver-maximum valid tag in greatest mode
IsCandidate(v) ==
  /\ ValidTags # <<>>
  /\ IF tagGreatest
       THEN /\ \E i \in DOMAIN ValidTags : ValidTags[i].body = v
            /\ \A i \in DOMAIN ValidTags : ~Gt(ValidTags[i].body, v)
       ELSE ValidTags[Len(ValidTags)].body = v

\* C25: for a specifier pinned to a semver tag, with the tags fetched, the
\* check completes; without a valid tag it reports nothing; an update it
\* reports is the candidate (the last-listed valid tag, the semver-maximum
\* valid tag in greatest mode) and differs from the old tag; and a candidate
\* that differs from the old tag (in greatest mode: is greater) is reported.
C25_TagPinned ==
  (tagPc # "start" /\ tagsAnswer.ok /\ ValidBare(oldTag)) =>
    /\ tagPc = "done"
    /\ ValidTags = <<>> => tagResult = <<>>
    /\ tagResult # <<>> =>
         (IsCandidate(tagResult[1].body) /\ Neq(tagResult[1].body, oldTag.body))
    /\ \A i \in DOMAIN ValidTags :
         (/\ IsCandidate(ValidTags[i].body)
          /\ IF tagGreatest THEN Gt(ValidTags[i].body, oldTag.body)
                            ELSE Neq(ValidTags[i].body, oldTag.body))
           => (tagResult # <<>> /\ tagResult[1].body = ValidTags[i].body)

---------------------------------------------------------------------------
\* Further properties of a whole run.

\* the dependencies whose specifier is neither a semver range nor a
\* recognised GitHub URL
Unrecognised == {d \in UrlDeps : urlPc[d] = "unrecognised"}

\* a fetch or the write of the manifest has failed
SomethingFailed ==
  \/ \E d \in Deps : getPc[d] \in {"rejected", "undefined", "fulfillederror"}
  \/ \E d \in UrlDeps : urlPc[d] = "rejected"
  \/ WriteFailed

\* C26: a dependency with an unrecognised specifier never appears in the
\* results and never makes the run fail: a run on a manifest that holds one
\* and was loaded ends in an error only if a fetch or the write has failed,
\* also when all other dependencies are unrecognised or URL dependencies.
C26_UnrecognisedSkipped ==
  (Finished /\ Unrecognised # {}) =>
    /\ printed \cap Unrecognised = {}
    /\ (loaded = "ok" /\ outcome = "error") => SomethingFailed

---------------------------------------------------------------------------
\* Further properties of the resolution engine.

\* C27: the version of every reported new range is a version the catalog
\* lists or the catalog's latest dist-tag; in particular it is not the
\* coercion of a prerelease old range when no catalog version qualifies.
C27_OnlyPublished ==
  (pc = "resolved" /\ reported) =>
    (Published(newVersion) \/ newVersion = data.latest)

\* the catalog of every semver-range dependency was fetched
CatalogsFetched == \A d \in Deps : getPc[d] = "fulfilled"

\* C28 (as stated): the manifest is written only when --update is given, at
\* least one update was computed and every fetch succeeded: the catalog of
\* every semver-range dependency was fetched and every repository fetch of a
\* URL dependency was answered with success.
C28_WriteOnlyAfterSuccess ==
  writes >= 1 =>
    /\ args.update
    /\ SomeUpdate
    /\ CatalogsFetched
    /\ \A d \in UrlDeps : urlPc[d] \in {"updated", "none", "unrecognised"}

\* C28 (amended): the manifest is written only when --update is given, at
\* least one update was computed, the catalog of every semver-range
\* dependency was fetched and no repository fetch has thrown; a URL
\* dependency whose repository fetch is answered with a non-success status
\* counts as up to date and does not keep the manifest from being written.
C28_WriteOnlyAfterNoThrow ==
  writes >= 1 =>
    /\ writes = 1
    /\ args.update
    /\ SomeUpdate
    /\ CatalogsFetched
    /\ \A d \in UrlDeps : urlPc[d] \in {"updated", "none", "notok", "unrecognised"}

\* the manifest is written in a run in which the repository fetch of a URL
\* dependency was answered with a non-success status
C28_Witness ==
  /\ writes = 1
  /\ args.update
  /\ \E d \in UrlDeps : urlPc[d] = "notok"
  /\ \E d \in Deps : hasUpdate[d] /\ d \in Elements(depsKeys)

---------------------------------------------------------------------------
\* Properties of the resolution of a partial range.

\* C29: a valid semver range that embeds no three-part version is never
\* reported as updatable, whatever versions a catalog with a latest dist-tag
\* holds: resolution completes, the rewritten range equals the old range
\* and the dependency is dropped.
C29_PartialNeverUpdated ==
  (partPc \notin {"idle", "start"} /\ IsVersion(partData.latest)) =>
    /\ partPc = "resolved"
    /\ partNewRange = partRange
    /\ ~partKept

---------------------------------------------------------------------------
\* Properties of the manifest lookup.

\* the nearest directory among the current one and its ancestors that
\* holds a package.json
Nearest == CHOOSE d \in holders : \A e \in holders : e <= d

\* C30: without --file the lookup ends, for every starting directory, with
\* the package.json of the nearest directory among the current directory and
\* its ancestors, and with the "Unable to find" error only when no directory
\* up to the root holds one.
C30_WalksUp ==
  findPc \notin {"idle", "start"} =>
    IF holders = {}
      THEN findPc = "notfound"
      ELSE findPc = "found" /\ packageFile = Nearest

====
